---- MODULE Spec2Model ----
(***************************************************************************)
(* Piece table with undo/redo (include/piece_table.h,                      *)
(* include/undo_redo_text_buffer.h), instantiated with                     *)
(* PieceSequenceT = std::list<Piece>, the Splicable branch.                *)
(*                                                                         *)
(* A std::list node is modelled by a node id; `node` maps every id ever    *)
(* allocated to the Piece it holds.  A list is a sequence of node ids, a   *)
(* list iterator is a node id, and END is pieces_.end().  An UndoPack is   *)
(* [begin, end, data] with begin/end iterators into pieces_ and data the   *)
(* list of nodes that were cut out.                                        *)
(***************************************************************************)
EXTENDS Integers, Sequences, FiniteSets, TLC

\* ---------------------------------------------------------------- bounds
MaxCalls == 4      \* calls made on the text buffer in one behaviour
MaxDoc == 3        \* inserts are issued only while the document stays within MaxDoc
MaxPieces == 3     \* pieces in a sequence handed to getPositionInTable
MaxPieceLen == 2   \* length of each of those pieces

\* ------------------------------------------------------- inputs explored
NUL == 0
\* size_type is unsigned: arithmetic on size_ wraps.  The model keeps the
\* wrap-around at a reduced width; a size above StringMax cannot be allocated
SizeMod == 65536
StringMax == 16384
Originals == {<<>>, <<1, 2>>}
Ranges == {<<>>, <<7>>, <<8, 9>>}
\* what *pieces_.end() may hold when delete_range_at reads it (line 260)
EndReads == {0, 1}

END == 0

VARIABLES original_buffer_, append_buffer_, pieces_, size_, node,
          undo_stack_, redo_stack_, status, log

vars == <<original_buffer_, append_buffer_, pieces_, size_, node,
          undo_stack_, redo_stack_, status, log>>

\* ------------------------------------------------------------ data types
Piece(s, n, a) == [start |-> s, size |-> n, appended_sequence |-> a]

UndoPack(b, e, d) == [begin |-> b, end |-> e, data |-> d]

\* the Pieces held by a list of nodes
PieceValues(nd, ids) == [i \in 1..Len(ids) |-> nd[ids[i]]]

\* iterator at list position i (Len+1 is end())
IterAt(ids, i) == IF i > Len(ids) THEN END ELSE ids[i]

InList(ids, it) == it = END \/ \E i \in 1..Len(ids) : ids[i] = it

PosOf(ids, it) ==
    IF it = END THEN Len(ids) + 1
    ELSE CHOOSE i \in 1..Len(ids) : ids[i] = it

\* ------------------------------------------------------- pure functions
RECURSIVE get_part_size(_)
get_part_size(ps) ==
    IF ps = <<>> THEN 0 ELSE Head(ps).size + get_part_size(Tail(ps))

\* the walk stops at a piece with it->size >= idx
RECURSIVE PositionFrom_ge(_, _, _)
PositionFrom_ge(ps, i, idx) ==
    IF i > Len(ps) THEN [in_piece_offset |-> idx, it |-> i]
    ELSE IF ps[i].size >= idx THEN [in_piece_offset |-> idx, it |-> i]
    ELSE PositionFrom_ge(ps, i + 1, idx - ps[i].size)

RECURSIVE PositionFrom(_, _, _)
PositionFrom(ps, i, idx) ==
    IF i > Len(ps) THEN [in_piece_offset |-> idx, it |-> i]
    ELSE IF ps[i].size > idx THEN [in_piece_offset |-> idx, it |-> i]
    ELSE PositionFrom(ps, i + 1, idx - ps[i].size)

getPositionInTable(ps, idx) == PositionFrom(ps, 1, idx)

split_piece_at(p, off) ==
    <<Piece(p.start, off, p.appended_sequence),
      Piece(p.start + off, p.size - off, p.appended_sequence)>>

\* the elements [start, start + size) of the piece's buffer; an element
\* past the end of the buffer is shown as NUL
PieceData(p, ob, ab) ==
    LET buf == IF p.appended_sequence THEN ab ELSE ob
    IN  [i \in 1..p.size |->
            IF p.start + i <= Len(buf) THEN buf[p.start + i] ELSE NUL]

RECURSIVE copy_data(_, _, _)
copy_data(ps, ob, ab) ==
    IF ps = <<>> THEN <<>>
    ELSE PieceData(Head(ps), ob, ab) \o copy_data(Tail(ps), ob, ab)

\* result(size(), '\0') filled by copy_data_to_span; what is copied past
\* the end of the result is not part of the returned string
\* std::basic_string(size(), '\0') throws when size() exceeds max_size()
to_string(ps, sz, ob, ab) ==
    LET all == copy_data(ps, ob, ab)
    IN  IF sz > StringMax THEN <<"length_error">>
        ELSE [i \in 1..sz |-> IF i <= Len(all) THEN all[i] ELSE NUL]

\* the range is inserted at std::begin(append_buffer_) instead of std::end
AppendToBuffer_at_begin(ab, range) == range \o ab

AppendToBuffer(ab, range) == ab \o range

\* .start = append_buffer_.size(), the appended size not subtracted
NewPiece_start_at_end(ab, range) == Piece(Len(ab), Len(range), TRUE)

NewPiece(ab, range) == Piece(Len(ab) - Len(range), Len(range), TRUE)

\* -------------------------------------------------- observed snapshots
Snap(ids, nd, sz, ob, ab) ==
    [text   |-> to_string(PieceValues(nd, ids), sz, ob, ab),
     size   |-> sz,
     pieces |-> PieceValues(nd, ids),
     ab     |-> ab,
     ob     |-> ob]

Now == Snap(pieces_, node, size_, original_buffer_, append_buffer_)

\* ------------------------------------------------------ PieceTable state
\* t = [pieces, node, size, ab]: pieces_, the nodes, size_, append_buffer_
Table == [pieces |-> pieces_, node |-> node, size |-> size_,
          ab |-> append_buffer_]

\* end_read: the call dereferenced pieces_.end()
Result(st, t, pack) ==
    [status |-> st, t |-> t, pack |-> pack, end_read |-> FALSE]

NoPack == UndoPack(END, END, <<>>)

\* the new nodes are inserted at the front of pieces_, not before `end`
replace_piece_range_with_at_front(t, b, e, elements) ==
    LET ids   == t.pieces
        fresh == [i \in 1..Len(elements) |-> Len(t.node) + i]
    IN  Result("ok",
               [t EXCEPT !.pieces = fresh \o SubSeq(ids, 1, b - 1)
                                      \o SubSeq(ids, e, Len(ids)),
                         !.node = t.node \o elements],
               UndoPack(IF elements = <<>> THEN IterAt(ids, e) ELSE fresh[1],
                        IterAt(ids, e),
                        SubSeq(ids, b, e - 1)))

\* cut [b, e) out of pieces_ (positions), put new nodes holding `elements`
\* in its place; the pack delimits the new nodes and owns the old ones
replace_piece_range_with(t, b, e, elements) ==
    LET ids   == t.pieces
        fresh == [i \in 1..Len(elements) |-> Len(t.node) + i]
    IN  Result("ok",
               [t EXCEPT !.pieces = SubSeq(ids, 1, b - 1) \o fresh
                                      \o SubSeq(ids, e, Len(ids)),
                         !.node = t.node \o elements],
               UndoPack(IF elements = <<>> THEN IterAt(ids, e) ELSE fresh[1],
                        IterAt(ids, e),
                        SubSeq(ids, b, e - 1)))

\* line 347 has cut [b, e) out into the local pack when the node allocation
\* of pieces_.insert (line 349) throws: the pack and its nodes are destroyed.
\* Nothing is allocated when `elements` is empty.
replace_piece_range_with_throw(t, b, e, elements) ==
    IF elements = <<>> THEN replace_piece_range_with(t, b, e, elements)
    ELSE Result("bad_alloc",
                [t EXCEPT !.pieces = SubSeq(t.pieces, 1, b - 1)
                                       \o SubSeq(t.pieces, e, Len(t.pieces))],
                NoPack)

\* replace_piece_range_with, its allocation throwing when `throws`
replace_piece_range_when(throws, t, b, e, elements) ==
    IF throws THEN replace_piece_range_with_throw(t, b, e, elements)
              ELSE replace_piece_range_with(t, b, e, elements)

\* clear without size_ = 0
clear_size_kept(t) ==
    replace_piece_range_with(t, 1, Len(t.pieces) + 1, <<>>)

clear(t) ==
    replace_piece_range_with([t EXCEPT !.size = 0], 1, Len(t.pieces) + 1, <<>>)

append_range(t, range) ==
    LET ab1 == AppendToBuffer(t.ab, range)
        id  == Len(t.node) + 1
    IN  Result("ok",
               [pieces |-> Append(t.pieces, id),
                node   |-> Append(t.node, NewPiece(ab1, range)),
                size   |-> (t.size + Len(range)) % SizeMod,
                ab     |-> ab1],
               UndoPack(id, END, <<>>))

\* insert_range_at that splits at offset + 1 when idx is inside a piece
insert_range_at_split_off_by_one(t, idx, range) ==
    IF idx = t.size THEN append_range(t, range)
    ELSE
    LET ps  == PieceValues(t.node, t.pieces)
        pos == getPositionInTable(ps, idx)
        ab1 == AppendToBuffer(t.ab, range)
        new_piece == NewPiece(ab1, range)
        t1  == [t EXCEPT !.ab = ab1, !.size = (t.size + Len(range)) % SizeMod]
        id  == Len(t.node) + 1
    IN  IF pos.in_piece_offset = 0
        THEN Result("ok",
                    [t1 EXCEPT !.pieces = SubSeq(t.pieces, 1, pos.it - 1)
                                 \o <<id>>
                                 \o SubSeq(t.pieces, pos.it, Len(t.pieces)),
                               !.node = Append(t.node, new_piece)],
                    UndoPack(id, IterAt(t.pieces, pos.it), <<>>))
        ELSE IF pos.it > Len(ps)
        THEN Result("ub", t1, NoPack)
        ELSE LET parts == split_piece_at(ps[pos.it], pos.in_piece_offset + 1)
             IN  replace_piece_range_with(t1, pos.it, pos.it + 1,
                     <<parts[1], new_piece, parts[2]>>)

insert_range_at(t, idx, range) ==
    IF idx = t.size THEN append_range(t, range)
    ELSE
    LET ps  == PieceValues(t.node, t.pieces)
        pos == getPositionInTable(ps, idx)
        ab1 == AppendToBuffer(t.ab, range)
        new_piece == NewPiece(ab1, range)
        t1  == [t EXCEPT !.ab = ab1, !.size = (t.size + Len(range)) % SizeMod]
        id  == Len(t.node) + 1
    IN  IF pos.in_piece_offset = 0
        THEN Result("ok",
                    [t1 EXCEPT !.pieces = SubSeq(t.pieces, 1, pos.it - 1)
                                 \o <<id>>
                                 \o SubSeq(t.pieces, pos.it, Len(t.pieces)),
                               !.node = Append(t.node, new_piece)],
                    UndoPack(id, IterAt(t.pieces, pos.it), <<>>))
        ELSE IF pos.it > Len(ps)
        THEN Result("ub", t1, NoPack)   \* split_piece_at reads *end()
        ELSE LET parts == split_piece_at(ps[pos.it], pos.in_piece_offset)
             IN  replace_piece_range_with(t1, pos.it, pos.it + 1,
                     <<parts[1], new_piece, parts[2]>>)

\* the walk of lines 260-263 over positions; position Len+1 is end(), whose
\* "size" is whatever the read of the sentinel yields (g), and ++ from end()
\* steps to the first node of the circular list.  fuel runs out exactly when
\* the loop never terminates.
RECURSIVE SkipDeleted(_, _, _, _, _, _)
SkipDeleted(ps, it, count, g, wrapped, fuel) ==
    LET sz == IF it > Len(ps) THEN g ELSE ps[it].size
    IN  IF fuel = 0
        THEN [it |-> it, count |-> count, wrapped |-> wrapped, hung |-> TRUE,
              end_read |-> wrapped]
        ELSE IF count >= sz
        THEN SkipDeleted(ps, IF it > Len(ps) THEN 1 ELSE it + 1, count - sz,
                         g, wrapped \/ it > Len(ps), fuel - 1)
        ELSE [it |-> it, count |-> count, wrapped |-> wrapped, hung |-> FALSE,
              end_read |-> wrapped \/ it > Len(ps)]

\* delete_range_at; `throws` makes the allocation of its last step, the
\* replacement of the range, fail
delete_range_at_with(throws, t, idx, count0, g) ==
    LET ps  == PieceValues(t.node, t.pieces)
        n   == Len(ps)
        t1  == [t EXCEPT !.size = t.size - count0]
        pos == getPositionInTable(ps, idx)
        range_begin == pos.it
        off0 == pos.in_piece_offset
        lsplit == off0 # 0
    IN  IF lsplit /\ pos.it > n THEN Result("ub", t1, NoPack)
        ELSE
        LET to_piece_end == IF lsplit THEN ps[pos.it].size - off0 ELSE 0
            past  == lsplit /\ to_piece_end <= count0
            count1 == IF past THEN count0 - to_piece_end ELSE count0
            off1  == IF past THEN 0 ELSE off0
            it1   == IF past THEN pos.it + 1 ELSE pos.it
            left  == IF lsplit
                       THEN <<split_piece_at(ps[pos.it], off0)[1]>> ELSE <<>>
            w     == SkipDeleted(ps, it1, count1, g, FALSE,
                                 (n + 1) * (count1 + 2))
            res   ==
                IF w.hung THEN Result("hung", t1, NoPack)
                ELSE IF w.count > 0 /\ w.it > n THEN Result("ub", t1, NoPack)
                ELSE
                LET right == IF w.count > 0
                               THEN <<split_piece_at(ps[w.it],
                                                     off1 + w.count)[2]>>
                               ELSE <<>>
                    range_end == IF w.count > 0 THEN w.it + 1 ELSE w.it
                IN  IF range_end < range_begin
                    THEN Result("ub", t1, NoPack) \* [begin, end) holds end()
                    ELSE replace_piece_range_when(throws, t1, range_begin,
                                                  range_end, left \o right)
        IN  [res EXCEPT !.end_read = w.end_read]

delete_range_at(t, idx, count0, g) ==
    delete_range_at_with(FALSE, t, idx, count0, g)

\* ------------------------------------------------- allocation failures
\* point 1: growing append_buffer_ throws (line 194; the insert has the
\* strong guarantee); point 2: the node for pieces_.insert throws (line 201)
append_range_throw(t, range, point) ==
    IF point = 1 THEN Result("bad_alloc", t, NoPack)
    ELSE Result("bad_alloc",
                [t EXCEPT !.ab = AppendToBuffer(t.ab, range)], NoPack)

\* point 1: line 142 throws; point 2: the node allocation of line 155 or of
\* replace_piece_range_with (line 171) throws, after size_ += appended_size
insert_range_at_throw(t, idx, range, point) ==
    IF idx = t.size THEN append_range_throw(t, range, point)
    ELSE IF point = 1 THEN Result("bad_alloc", t, NoPack)
    ELSE
    LET ps  == PieceValues(t.node, t.pieces)
        pos == getPositionInTable(ps, idx)
        ab1 == AppendToBuffer(t.ab, range)
        t1  == [t EXCEPT !.ab = ab1, !.size = (t.size + Len(range)) % SizeMod]
    IN  IF pos.in_piece_offset = 0 THEN Result("bad_alloc", t1, NoPack)
        ELSE IF pos.it > Len(ps) THEN Result("ub", t1, NoPack)
        ELSE LET parts == split_piece_at(ps[pos.it], pos.in_piece_offset)
             IN  replace_piece_range_with_throw(t1, pos.it, pos.it + 1,
                     <<parts[1], NewPiece(ab1, range), parts[2]>>)

\* the only allocation of delete_range_at is the one of line 287
delete_range_at_throw(t, idx, count0, g) ==
    delete_range_at_with(TRUE, t, idx, count0, g)

\* apply with redo.begin = undo.end even when nodes were spliced in
undo_begin_at_end(t, pack) ==
    IF ~(InList(t.pieces, pack.begin) /\ InList(t.pieces, pack.end))
    THEN Result("ub", t, NoPack)
    ELSE
    LET b == PosOf(t.pieces, pack.begin)
        e == PosOf(t.pieces, pack.end)
    IN  IF b > e THEN Result("ub", t, NoPack)
        ELSE
        LET redo_data   == SubSeq(t.pieces, b, e - 1)
            undo_length == get_part_size(PieceValues(t.node, pack.data))
        IN  Result("ok",
                   [t EXCEPT !.pieces = SubSeq(t.pieces, 1, b - 1)
                                          \o pack.data
                                          \o SubSeq(t.pieces, e, Len(t.pieces)),
                             !.size = (t.size + undo_length
                                 - get_part_size(PieceValues(t.node, redo_data)))
                                 % SizeMod],
                   UndoPack(pack.end, pack.end, redo_data))

\* undo that splices but leaves size_ as it was
undo_size_kept(t, pack) ==
    IF ~(InList(t.pieces, pack.begin) /\ InList(t.pieces, pack.end))
    THEN Result("ub", t, NoPack)
    ELSE
    LET b == PosOf(t.pieces, pack.begin)
        e == PosOf(t.pieces, pack.end)
    IN  IF b > e THEN Result("ub", t, NoPack)
        ELSE
        LET redo_data == SubSeq(t.pieces, b, e - 1)
        IN  Result("ok",
                   [t EXCEPT !.pieces = SubSeq(t.pieces, 1, b - 1)
                                          \o pack.data
                                          \o SubSeq(t.pieces, e, Len(t.pieces))],
                   UndoPack(IF pack.data = <<>> THEN pack.end
                                                ELSE pack.data[1],
                            pack.end, redo_data))

\* PieceTable::undo, the shared apply primitive
undo(t, pack) ==
    IF ~(InList(t.pieces, pack.begin) /\ InList(t.pieces, pack.end))
    THEN Result("ub", t, NoPack)        \* iterator to a destroyed node
    ELSE
    LET b == PosOf(t.pieces, pack.begin)
        e == PosOf(t.pieces, pack.end)
    IN  IF b > e THEN Result("ub", t, NoPack)
        ELSE
        LET redo_data   == SubSeq(t.pieces, b, e - 1)
            undo_length == get_part_size(PieceValues(t.node, pack.data))
        IN  Result("ok",
                   [t EXCEPT !.pieces = SubSeq(t.pieces, 1, b - 1)
                                          \o pack.data
                                          \o SubSeq(t.pieces, e, Len(t.pieces)),
                             !.size = (t.size + undo_length
                                 - get_part_size(PieceValues(t.node, redo_data)))
                                 % SizeMod],
                   UndoPack(IF pack.data = <<>> THEN pack.end
                                                ELSE pack.data[1],
                            pack.end, redo_data))

\* --------------------------------------------------- UndoRedoTextBuffer
\* auto undo_pack = undo_stack_.back(): the copy of an UndoPack copies the
\* iterators and copy-constructs the std::list, i.e. allocates new nodes
CopyPack(nd, pack) ==
    [node |-> nd \o PieceValues(nd, pack.data),
     pack |-> UndoPack(pack.begin, pack.end,
                       [i \in 1..Len(pack.data) |-> Len(nd) + i])]

\* the pack is pushed without clearing the redo stack
new_operation_keeps_redo(us, rs, p) == [undo |-> Append(us, p), redo |-> rs]

new_operation(us, rs, p) == [undo |-> Append(us, p), redo |-> <<>>]

\* pop_back() left out
Front_kept(s) == s

Front(s) == SubSeq(s, 1, Len(s) - 1)
Last(s) == s[Len(s)]

\* one call as seen from outside: its arguments, the table and the stacks
\* before and after, the Pieces of the returned pack (removed) and, for
\* undo/redo, the Pieces of the applied pack and the positions of its anchors
Entry(op, idx, n, data, r) ==
    [op |-> op, idx |-> idx, n |-> n, data |-> data,
     pre  |-> Now,
     post |-> Snap(r.t.pieces, r.t.node, r.t.size, original_buffer_, r.t.ab),
     done |-> r.status = "ok",
     outcome |-> r.status,
     end_read |-> r.end_read,
     removed |-> PieceValues(r.t.node, r.pack.data),
     applied |-> <<>>,
     loc |-> <<0, 0>>,
     us0 |-> undo_stack_, rs0 |-> redo_stack_,
     us1 |-> undo_stack_, rs1 |-> redo_stack_]

EntryApply(op, t, pack, r) ==
    [Entry(op, 0, 0, <<>>, r) EXCEPT
        !.applied = PieceValues(t.node, pack.data),
        !.loc = IF InList(t.pieces, pack.begin) /\ InList(t.pieces, pack.end)
                THEN <<PosOf(t.pieces, pack.begin), PosOf(t.pieces, pack.end)>>
                ELSE <<0, 0>>]

Commit(e, r, us, rs) ==
    /\ pieces_' = r.t.pieces
    /\ node' = r.t.node
    /\ size_' = r.t.size
    /\ append_buffer_' = r.t.ab
    /\ status' = r.status
    /\ undo_stack_' = us
    /\ redo_stack_' = rs
    /\ log' = Append(log, [e EXCEPT !.us1 = us, !.rs1 = rs])
    /\ UNCHANGED original_buffer_

\* an edit that returns hands its pack to new_operation
Edit(e, r) ==
    LET st == new_operation(undo_stack_, redo_stack_, r.pack)
    IN  IF r.status = "ok" THEN Commit(e, r, st.undo, st.redo)
        ELSE Commit(e, r, undo_stack_, redo_stack_)

Min(a, b) == IF a < b THEN a ELSE b

CanCall == status = "ok" /\ Len(log) < MaxCalls

TB_clear ==
    /\ CanCall
    /\ Edit(Entry("clear", 0, 0, <<>>, clear(Table)), clear(Table))

\* the growth cap on issued inserts: size_ + |data| <= MaxDoc, and once
\* size_ has wrapped below zero, pieces' total + |data| <= MaxDoc
Room(range) ==
    IF size_ <= MaxDoc
    THEN size_ + Len(range) <= MaxDoc
    ELSE get_part_size(PieceValues(node, pieces_)) + Len(range) <= MaxDoc

TB_insert_range_at ==
    /\ CanCall
    /\ \E idx \in 0..Min(size_, MaxDoc), range \in Ranges :
          /\ Room(range)
          /\ LET r == insert_range_at(Table, idx, range)
             IN  Edit(Entry("insert", idx, Len(range), range, r), r)

TB_append_range ==
    /\ CanCall
    /\ \E range \in Ranges :
          /\ Room(range)
          /\ LET r == append_range(Table, range)
             IN  Edit(Entry("append", size_, Len(range), range, r), r)

TB_delete_range_at ==
    /\ CanCall
    /\ \E idx \in 0..Min(size_, MaxDoc) :
       \E count \in 0..Min(size_ - idx, MaxDoc) : \E g \in EndReads :
          LET r == delete_range_at(Table, idx, count, g)
          IN  Edit(Entry("delete", idx, count, <<>>, r), r)

\* back() and pop_back() of an empty std::vector: undefined behaviour
EmptyStackRead == Result("ub", Table, NoPack)

TB_undo ==
    /\ CanCall
    /\ IF undo_stack_ = <<>>
       THEN Commit(Entry("undo", 0, 0, <<>>, EmptyStackRead), EmptyStackRead,
                   undo_stack_, redo_stack_)
       ELSE
       LET c == CopyPack(node, Last(undo_stack_))
           t == [Table EXCEPT !.node = c.node]
           r == undo(t, c.pack)
       IN  Commit(EntryApply("undo", t, c.pack, r), r, Front(undo_stack_),
                  IF r.status = "ok" THEN Append(redo_stack_, r.pack)
                                     ELSE redo_stack_)

TB_redo ==
    /\ CanCall
    /\ IF redo_stack_ = <<>>
       THEN Commit(Entry("redo", 0, 0, <<>>, EmptyStackRead), EmptyStackRead,
                   undo_stack_, redo_stack_)
       ELSE
       LET c == CopyPack(node, Last(redo_stack_))
           t == [Table EXCEPT !.node = c.node]
           r == undo(t, c.pack)
       IN  Commit(EntryApply("redo", t, c.pack, r), r,
                  IF r.status = "ok" THEN Append(undo_stack_, r.pack)
                                     ELSE undo_stack_,
                  Front(redo_stack_))

\* is_empty(): pieces_.empty()
is_empty == pieces_ = <<>>

\* size(), length()
size == size_

\* PieceTable(OriginalBufferT): one piece spanning the original buffer
Construct(o) ==
    /\ original_buffer_ = o
    /\ append_buffer_ = <<>>
    /\ pieces_ = <<1>>
    /\ node = <<Piece(0, Len(o), FALSE)>>
    /\ size_ = Len(o)

\* PieceTable() = default
DefaultConstruct ==
    /\ original_buffer_ = <<>>
    /\ append_buffer_ = <<>>
    /\ pieces_ = <<>>
    /\ node = <<>>
    /\ size_ = 0

Init ==
    /\ DefaultConstruct \/ \E o \in Originals : Construct(o)
    /\ undo_stack_ = <<>>
    /\ redo_stack_ = <<>>
    /\ status = "ok"
    /\ log = <<>>

Next ==
    \/ TB_clear
    \/ TB_insert_range_at
    \/ TB_append_range
    \/ TB_delete_range_at
    \/ TB_undo
    \/ TB_redo

Spec == Init /\ [][Next]_vars

\* the same calls when an allocation inside the PieceTable throws
\* std::bad_alloc: the exception leaves the call before new_operation
Throw(e, r) ==
    /\ r.status = "bad_alloc"
    /\ Commit(e, r, undo_stack_, redo_stack_)

TB_insert_range_at_bad_alloc ==
    /\ CanCall
    /\ \E idx \in 0..Min(size_, MaxDoc), range \in Ranges, point \in {1, 2} :
          /\ Room(range)
          /\ point = 1 => range # <<>>
          /\ LET r == insert_range_at_throw(Table, idx, range, point)
             IN  Throw(Entry("insert", idx, Len(range), range, r), r)

TB_append_range_bad_alloc ==
    /\ CanCall
    /\ \E range \in Ranges, point \in {1, 2} :
          /\ Room(range)
          /\ point = 1 => range # <<>>
          /\ LET r == append_range_throw(Table, range, point)
             IN  Throw(Entry("append", size_, Len(range), range, r), r)

TB_delete_range_at_bad_alloc ==
    /\ CanCall
    /\ \E idx \in 0..Min(size_, MaxDoc) :
       \E count \in 0..Min(size_ - idx, MaxDoc) : \E g \in EndReads :
          LET r == delete_range_at_throw(Table, idx, count, g)
          IN  Throw(Entry("delete", idx, count, <<>>, r), r)

NextAlloc ==
    \/ TB_clear
    \/ TB_insert_range_at
    \/ TB_append_range
    \/ TB_delete_range_at
    \/ TB_undo
    \/ TB_redo
    \/ TB_insert_range_at_bad_alloc
    \/ TB_append_range_bad_alloc
    \/ TB_delete_range_at_bad_alloc

SpecAlloc == Init /\ [][NextAlloc]_vars

\* getPositionInTable on its own: any piece sequence of up to MaxPieces
\* pieces of up to MaxPieceLen elements, resolved at any idx in 0..size
RECURSIVE SeqsUpTo(_, _)
SeqsUpTo(S, k) ==
    IF k = 0 THEN {<<>>}
    ELSE SeqsUpTo(S, k - 1)
           \cup {Append(q, x) : q \in SeqsUpTo(S, k - 1), x \in S}

PosPieces ==
    {Piece(0, n, a) : n \in 0..MaxPieceLen, a \in BOOLEAN}

InitPos ==
    /\ original_buffer_ = [i \in 1..MaxPieceLen |-> i]
    /\ append_buffer_ = [i \in 1..MaxPieceLen |-> 6 + i]
    /\ node \in SeqsUpTo(PosPieces, MaxPieces)
    /\ pieces_ = [i \in 1..Len(node) |-> i]
    /\ size_ = get_part_size(node)
    /\ undo_stack_ = <<>>
    /\ redo_stack_ = <<>>
    /\ status = "ok"
    /\ log = <<>>

Resolve ==
    /\ log = <<>>
    /\ \E idx \in 0..size_ :
          log' = <<[op |-> "resolve", idx |-> idx,
                    pos |-> getPositionInTable(PieceValues(node, pieces_), idx),
                    pre |-> Now, post |-> Now]>>
    /\ UNCHANGED <<original_buffer_, append_buffer_, pieces_, size_, node,
                   undo_stack_, redo_stack_, status>>

NextPos == Resolve

SpecPos == InitPos /\ [][NextPos]_vars

SumPieces == get_part_size(PieceValues(node, pieces_))

\* ---------------------------------------------------------------- claims
Edits == {"clear", "insert", "append", "delete"}
Calls == 1..Len(log)

IsPrefix(a, b) == Len(a) <= Len(b) /\ SubSeq(b, 1, Len(a)) = a

\* T[0..idx) data T[idx..)
Spliced(T, idx, data) ==
    SubSeq(T, 1, idx) \o data \o SubSeq(T, idx + 1, Len(T))

\* T[0..idx) T[idx+count..)
Cut(T, idx, count) == SubSeq(T, 1, idx) \o SubSeq(T, idx + count + 1, Len(T))

NoEmptyPiece(ps) == \A i \in 1..Len(ps) : ps[i].size # 0

\* idx is the sum of the lengths of some prefix of the piece sequence
OnBoundary(ps, idx) ==
    \E k \in 0..Len(ps) : get_part_size(SubSeq(ps, 1, k)) = idx

\* C1: whenever the table is at rest after a completed call, size() equals
\* the sum of the lengths of the pieces in the sequence and the length of
\* to_string().
C1_SizeInvariant ==
    status = "ok" => /\ size_ = SumPieces
                     /\ Len(Now.text) = size_

\* C2: an edit that is undone right away leaves to_string() and size() as
\* they were before the edit.
C2_UndoRestores ==
    \A i \in Calls :
        (i > 1 /\ log[i].op = "undo" /\ log[i-1].op \in Edits /\ log[i-1].done)
        => /\ log[i].done
           /\ log[i].post.text = log[i-1].pre.text
           /\ log[i].post.size = log[i-1].pre.size

\* C3: edit, undo(), redo() in a row ends in the state the edit produced:
\* same to_string(), same size(), same piece sequence.
C3_RedoRestores ==
    \A i \in Calls :
        (/\ i > 2
         /\ log[i].op = "redo"
         /\ log[i-1].op = "undo" /\ log[i-1].done
         /\ log[i-2].op \in Edits /\ log[i-2].done)
        => /\ log[i].done
           /\ log[i].post.text = log[i-2].post.text
           /\ log[i].post.size = log[i-2].post.size
           /\ log[i].post.pieces = log[i-2].post.pieces

C3_Witness ==
    \E i \in Calls :
        /\ i > 2
        /\ log[i].op = "redo" /\ log[i].done
        /\ log[i-1].op = "undo" /\ log[i-1].done
        /\ log[i-2].op = "delete" /\ log[i-2].done
        /\ log[i-2].post.pieces # log[i-2].pre.pieces
        /\ log[i-1].post.pieces = log[i-2].pre.pieces
        /\ log[i].post.pieces = log[i-2].post.pieces

\* C4: after every edit that returned, the Redo Stack is empty.
C4_EditClearsRedo ==
    (log # <<>> /\ Last(log).op \in Edits /\ Last(log).done)
    => redo_stack_ = <<>>

C4_Witness ==
    /\ Len(log) >= 2
    /\ Last(log).op \in Edits /\ Last(log).done
    /\ log[Len(log) - 1].op = "undo" /\ log[Len(log) - 1].done
    /\ redo_stack_ = <<>>

\* C5: n edits followed by k <= n undo() calls leave to_string() and size()
\* as they were after the first n-k edits.
C5_UndoChain ==
    \A n \in Calls : \A k \in 1..n :
        (/\ Len(log) = n + k
         /\ \A i \in 1..n : log[i].op \in Edits /\ log[i].done
         /\ \A i \in (n+1)..(n+k) : log[i].op = "undo")
        => LET target == IF n = k THEN log[1].pre ELSE log[n-k].post
           IN  /\ Last(log).done
               /\ Last(log).post.text = target.text
               /\ Last(log).post.size = target.size

\* C6: insert_range_at(idx, data) and append_range(data) (idx = size) turn
\* the text T into T[0..idx) data T[idx..) and add length(data) to size().
C6_InsertText ==
    \A i \in Calls :
        (log[i].op \in {"insert", "append"} /\ log[i].done)
        => /\ log[i].post.text
                = Spliced(log[i].pre.text, log[i].idx, log[i].data)
           /\ log[i].post.size = log[i].pre.size + log[i].n

\* C7: delete_range_at(idx, count) turns the text T into
\* T[0..idx) T[idx+count..) and takes count off size().
C7_DeleteText ==
    \A i \in Calls :
        log[i].op = "delete"
        => /\ log[i].done
           /\ log[i].post.text = Cut(log[i].pre.text, log[i].idx, log[i].n)
           /\ log[i].post.size = log[i].pre.size - log[i].n

\* C8: insert_range_at(idx, data) followed at once by
\* delete_range_at(idx, length(data)) gives back the text from before the
\* insert.
C8_InsertDeleteRoundTrip ==
    \A i \in Calls :
        (/\ i > 1
         /\ log[i].op = "delete"
         /\ log[i-1].op = "insert" /\ log[i-1].done
         /\ log[i].idx = log[i-1].idx
         /\ log[i].n = log[i-1].n)
        => /\ log[i].done
           /\ log[i].post.text = log[i-1].pre.text

\* C9: no call changes the Original Buffer, and the Append Buffer before a
\* call is a prefix of the Append Buffer after it.
C9_BuffersAppendOnly ==
    /\ \A i \in Calls : /\ log[i].post.ob = log[i].pre.ob
                        /\ IsPrefix(log[i].pre.ab, log[i].post.ab)
    /\ log # <<>> => /\ original_buffer_ = log[1].pre.ob
                     /\ IsPrefix(log[1].pre.ab, append_buffer_)

C9_Witness ==
    \E i \in Calls : \E j \in Calls :
        /\ i < j
        /\ log[i].op \in {"insert", "append"} /\ log[i].n > 0 /\ log[i].done
        /\ log[i].pre.ab # <<>>
        /\ log[j].op \in {"undo", "clear", "delete"} /\ log[j].done
        /\ IsPrefix(log[i].post.ab, append_buffer_)
        /\ original_buffer_ # <<>>

\* C10: an insert, append or delete whose positions all lie on piece
\* boundaries of a sequence without zero-length pieces leaves the sequence
\* without zero-length pieces.
C10_NoEmptyPieceOnBoundary ==
    \A i \in Calls :
        (/\ log[i].op \in {"insert", "append", "delete"}
         /\ log[i].done
         /\ NoEmptyPiece(log[i].pre.pieces)
         /\ OnBoundary(log[i].pre.pieces, log[i].idx)
         /\ log[i].op = "delete"
               => OnBoundary(log[i].pre.pieces, log[i].idx + log[i].n))
        => NoEmptyPiece(log[i].post.pieces)

\* C11: delete_range_at(idx, 0) and insert_range_at(idx, empty data) leave
\* to_string(), size() and the sum of the piece lengths as they were, and
\* the returned record has nothing in `removed`.
C11_ZeroLengthNoOp ==
    \A i \in Calls :
        (\/ log[i].op = "delete" /\ log[i].n = 0
         \/ log[i].op = "insert" /\ log[i].data = <<>>)
        => /\ log[i].done
           /\ log[i].post.text = log[i].pre.text
           /\ log[i].post.size = log[i].pre.size
           /\ get_part_size(log[i].post.pieces)
                = get_part_size(log[i].pre.pieces)
           /\ log[i].removed = <<>>

\* C12: undo() with an empty Undo Stack and redo() with an empty Redo Stack
\* read no record from the empty stack and leave the piece sequence, size()
\* and both stacks as they were.
C12_EmptyStackDetected ==
    \A i \in Calls :
        (\/ log[i].op = "undo" /\ log[i].us0 = <<>>
         \/ log[i].op = "redo" /\ log[i].rs0 = <<>>)
        => /\ log[i].outcome # "ub"
           /\ log[i].post = log[i].pre
           /\ log[i].us1 = log[i].us0
           /\ log[i].rs1 = log[i].rs0

\* C13: when an allocation inside insert_range_at, append_range or
\* delete_range_at fails, the piece sequence is what it was before the call
\* and size() still equals the sum of the piece lengths.
C13_AllocFailureKeepsState ==
    \A i \in Calls :
        log[i].outcome = "bad_alloc"
        => /\ log[i].post.pieces = log[i].pre.pieces
           /\ log[i].pre.size = get_part_size(log[i].pre.pieces)
                => log[i].post.size = get_part_size(log[i].post.pieces)

\* C14: clear() sets size() to 0 and empties the piece sequence; the pack it
\* returns holds the whole prior sequence in order, and applying that pack
\* puts the prior sequence back.
C14_Clear ==
    \A i \in Calls :
        log[i].op = "clear"
        => /\ log[i].done
           /\ log[i].post.size = 0
           /\ log[i].post.pieces = <<>>
           /\ log[i].removed = log[i].pre.pieces
           /\ (i < Len(log) /\ log[i+1].op = "undo")
                => /\ log[i+1].done
                   /\ log[i+1].post.pieces = log[i].pre.pieces

C14_Witness ==
    \E i \in Calls :
        /\ i < Len(log)
        /\ log[i].op = "clear"
        /\ Len(log[i].pre.pieces) >= 2
        /\ log[i].pre.size > 0
        /\ log[i].removed = log[i].pre.pieces
        /\ log[i+1].op = "undo" /\ log[i+1].done
        /\ log[i+1].post.pieces = log[i].pre.pieces

AllButTop(st) == SubSeq(st, 1, Len(st) - 1)

\* C15: every call that returns moves records in LIFO order: an edit pushes
\* one record on the Undo Stack; undo() applies and removes the top Undo
\* record and pushes one record on the Redo Stack; redo() applies and
\* removes the top Redo record and pushes one record on the Undo Stack; undo()
\* and redo() keep |Undo Stack| + |Redo Stack|.
C15_StackProtocol ==
    \A i \in Calls :
        log[i].done =>
        LET e == log[i]
        IN  /\ e.op \in Edits
                => /\ Len(e.us1) = Len(e.us0) + 1
                   /\ AllButTop(e.us1) = e.us0
            /\ e.op = "undo"
                => /\ e.us1 = AllButTop(e.us0)
                   /\ Len(e.rs1) = Len(e.rs0) + 1
                   /\ AllButTop(e.rs1) = e.rs0
                   /\ e.applied = PieceValues(node, e.us0[Len(e.us0)].data)
                   /\ Len(e.us1) + Len(e.rs1) = Len(e.us0) + Len(e.rs0)
            /\ e.op = "redo"
                => /\ e.rs1 = AllButTop(e.rs0)
                   /\ Len(e.us1) = Len(e.us0) + 1
                   /\ AllButTop(e.us1) = e.us0
                   /\ e.applied = PieceValues(node, e.rs0[Len(e.rs0)].data)
                   /\ Len(e.us1) + Len(e.rs1) = Len(e.us0) + Len(e.rs0)

C15_Witness ==
    /\ Len(log) >= 4
    /\ log[1].op \in Edits /\ log[1].done
    /\ log[2].op \in Edits /\ log[2].done
    /\ log[3].op = "undo" /\ log[3].done
    /\ log[4].op = "redo" /\ log[4].done
    /\ Len(undo_stack_) = 2 /\ redo_stack_ = <<>>
    /\ log[3].us1 = <<log[1].us1[1]>>

\* sum of the lengths of the first k pieces
Cum(ps, k) == get_part_size(SubSeq(ps, 1, k))

\* C16: for idx below the size, getPositionInTable returns the first piece
\* whose range [Cum(it-1), Cum(it)) contains idx and the offset of idx in it;
\* for idx equal to the size it returns the end slot with offset 0; the
\* table is left as it was.
C16_PositionResolved ==
    \A i \in Calls :
        log[i].op = "resolve" =>
        LET ps  == log[i].pre.pieces
            idx == log[i].idx
            r   == log[i].pos
        IN  /\ idx < Cum(ps, Len(ps))
                => /\ r.it \in 1..Len(ps)
                   /\ Cum(ps, r.it - 1) <= idx
                   /\ idx < Cum(ps, r.it)
                   /\ \A j \in 1..(r.it - 1) :
                         ~(Cum(ps, j - 1) <= idx /\ idx < Cum(ps, j))
                   /\ r.in_piece_offset = idx - Cum(ps, r.it - 1)
                   /\ 0 <= r.in_piece_offset
                   /\ r.in_piece_offset < ps[r.it].size
            /\ idx = Cum(ps, Len(ps))
                => /\ r.it = Len(ps) + 1
                   /\ r.in_piece_offset = 0
            /\ log[i].post = log[i].pre

C16_Witness ==
    /\ log # <<>>
    /\ log[1].op = "resolve"
    /\ Len(log[1].pre.pieces) = 3
    /\ log[1].pre.pieces[1].size = 0
    /\ log[1].pre.pieces[2].size = 2
    /\ log[1].pos.it = 3
    /\ log[1].pos.in_piece_offset = 1

InBounds(p) ==
    p.start + p.size
        <= Len(IF p.appended_sequence THEN append_buffer_ ELSE original_buffer_)

AllInBounds(ids) == \A k \in 1..Len(ids) : InBounds(node[ids[k]])

\* C17: every piece of the live sequence and every piece held in a record
\* on the Undo or Redo Stack lies inside its source buffer:
\* start + length <= length of the buffer.
C17_PiecesInBounds ==
    /\ AllInBounds(pieces_)
    /\ \A k \in 1..Len(undo_stack_) : AllInBounds(undo_stack_[k].data)
    /\ \A k \in 1..Len(redo_stack_) : AllInBounds(redo_stack_[k].data)

C17_Witness ==
    /\ \E k \in 1..Len(pieces_) :
          /\ node[pieces_[k]].appended_sequence
          /\ node[pieces_[k]].start > 0
          /\ node[pieces_[k]].start + node[pieces_[k]].size
                = Len(append_buffer_)
    /\ \E k \in 1..Len(pieces_) :
          /\ ~node[pieces_[k]].appended_sequence
          /\ node[pieces_[k]].start > 0
          /\ node[pieces_[k]].size > 0
    /\ \E k \in 1..Len(undo_stack_) : undo_stack_[k].data # <<>>

\* x lies strictly inside a piece of ps
StrictlyInside(ps, x) == ~OnBoundary(ps, x)

\* the delete of log entry d replaced the pieces [b, e) of the prior
\* sequence by its survivors: the prefix of piece b up to idx when idx is
\* strictly inside a piece, the suffix of piece e-1 from idx+count when
\* idx+count is, and nothing else; `removed` is the pieces [b, e)
DeleteReplaced(d, b, e) ==
    LET ps == d.pre.pieces
        q  == d.post.pieces
        lo == d.idx
        hi == d.idx + d.n
        li == StrictlyInside(ps, lo)
        ri == StrictlyInside(ps, hi)
        s  == (IF li THEN 1 ELSE 0) + (IF ri THEN 1 ELSE 0)
    IN  /\ d.removed = SubSeq(ps, b, e - 1)
        /\ Len(q) = Len(ps) - (e - b) + s
        /\ SubSeq(q, 1, b - 1) = SubSeq(ps, 1, b - 1)
        /\ SubSeq(q, b + s, Len(q)) = SubSeq(ps, e, Len(ps))
        /\ IF li
           THEN /\ e > b
                /\ Cum(ps, b - 1) < lo /\ lo < Cum(ps, b)
                /\ q[b] = Piece(ps[b].start, lo - Cum(ps, b - 1),
                                ps[b].appended_sequence)
           ELSE Cum(ps, b - 1) = lo
        /\ IF ri
           THEN /\ e > b
                /\ Cum(ps, e - 2) < hi /\ hi < Cum(ps, e - 1)
                /\ q[b + s - 1] = Piece(ps[e-1].start + (hi - Cum(ps, e - 2)),
                                        Cum(ps, e - 1) - hi,
                                        ps[e-1].appended_sequence)
           ELSE Cum(ps, e - 1) = hi

\* C18: delete_range_at(idx, count) replaces the consumed span of pieces by
\* one survivor for each of idx and idx+count that lies strictly inside a
\* piece (left survivor = prefix up to idx, right survivor = suffix from
\* idx+count), and `removed` is the consumed pieces in order.
C18_DeleteSurvivors ==
    \A i \in Calls :
        (log[i].op = "delete" /\ log[i].done)
        => \E b \in 1..(Len(log[i].pre.pieces) + 1) :
           \E e \in b..(Len(log[i].pre.pieces) + 1) :
              DeleteReplaced(log[i], b, e)

\* the Appended piece an insert of n elements creates
InsertedPiece(d) == Piece(Len(d.pre.ab), d.n, TRUE)

\* C19: insert_range_at(idx, data) with idx < size.  On a piece boundary the
\* sequence gains the new Appended piece, placed before the piece that
\* starts at idx, nothing is split and `removed` is empty.  Strictly inside
\* piece P, P is replaced by [left, new, right], the split of P at the
\* offset of idx, and `removed` is [P].
C19_InsertPieces ==
    \A i \in Calls :
        (log[i].op = "insert" /\ log[i].done /\ log[i].idx < log[i].pre.size)
        =>
        LET ps  == log[i].pre.pieces
            q   == log[i].post.pieces
            idx == log[i].idx
            new == InsertedPiece(log[i])
        IN  /\ OnBoundary(ps, idx)
                => /\ \E k \in 1..(Len(ps) + 1) :
                         /\ Cum(ps, k - 1) = idx
                         /\ k <= Len(ps) => ps[k].size > 0
                         /\ q = SubSeq(ps, 1, k - 1) \o <<new>>
                                  \o SubSeq(ps, k, Len(ps))
                   /\ log[i].removed = <<>>
            /\ \A k \in 1..Len(ps) :
                  (Cum(ps, k - 1) < idx /\ idx < Cum(ps, k))
                  => LET off == idx - Cum(ps, k - 1)
                         P   == ps[k]
                     IN  /\ q = SubSeq(ps, 1, k - 1)
                                 \o <<Piece(P.start, off, P.appended_sequence),
                                      new,
                                      Piece(P.start + off, P.size - off,
                                            P.appended_sequence)>>
                                 \o SubSeq(ps, k + 1, Len(ps))
                         /\ log[i].removed = <<P>>

C19_Witness ==
    \E i \in Calls : \E j \in Calls :
        /\ log[i].op = "insert" /\ log[i].done
        /\ log[i].idx < log[i].pre.size
        /\ log[i].idx > 0
        /\ OnBoundary(log[i].pre.pieces, log[i].idx)
        /\ log[i].removed = <<>>
        /\ Len(log[i].post.pieces) = Len(log[i].pre.pieces) + 1
        /\ log[j].op = "insert" /\ log[j].done
        /\ ~OnBoundary(log[j].pre.pieces, log[j].idx)
        /\ Len(log[j].removed) = 1
        /\ Len(log[j].post.pieces) = Len(log[j].pre.pieces) + 2

Opposite(op) == IF op = "undo" THEN "redo" ELSE "undo"

\* C20: apply (PieceTable::undo) is an involution on the piece sequence.
\* Applying a valid record r returns r' whose `removed` is the span that
\* occupied r's location, size() changes (in size_type arithmetic) by the
\* lengths in r.removed minus the lengths in r'.removed, and applying r'
\* right after restores the piece sequence and size() from before r.
C20_ApplyInvolution ==
    \A i \in Calls :
        (log[i].op \in {"undo", "redo"} /\ log[i].done)
        =>
        LET d  == log[i]
            ps == d.pre.pieces
            b  == d.loc[1]
            e  == d.loc[2]
        IN  /\ 1 <= b /\ b <= e /\ e <= Len(ps) + 1
            /\ d.removed = SubSeq(ps, b, e - 1)
            /\ d.post.size = (d.pre.size + get_part_size(d.applied)
                                 - get_part_size(d.removed)) % SizeMod
            /\ (i < Len(log) /\ log[i+1].op = Opposite(d.op))
                  => /\ log[i+1].done
                     /\ log[i+1].applied = d.removed
                     /\ log[i+1].removed = d.applied
                     /\ log[i+1].post.pieces = ps
                     /\ log[i+1].post.size = d.pre.size

C20_Witness ==
    \E i \in Calls :
        /\ log[i].op = "undo" /\ log[i].done
        /\ log[i].applied # <<>>
        /\ Len(log[i].removed) > 1
        /\ get_part_size(log[i].applied) # get_part_size(log[i].removed)
        /\ i < Len(log)
        /\ log[i+1].op = "redo" /\ log[i+1].done
        /\ log[i+1].post.pieces = log[i].pre.pieces
        /\ log[i+1].post.pieces # log[i].post.pieces

\* C21: a delete_range_at(idx, count) with idx + count = size stops its walk
\* at the end of the sequence without reading a piece there, returns, and
\* has consumed exactly the pieces covering [idx, size).
C21_DeleteToEnd ==
    \A i \in Calls :
        (log[i].op = "delete" /\ log[i].idx + log[i].n = log[i].pre.size)
        => /\ ~log[i].end_read
           /\ log[i].done
           /\ \E b \in 1..(Len(log[i].pre.pieces) + 1) :
                 DeleteReplaced(log[i], b, Len(log[i].pre.pieces) + 1)

\* an undo()/redo() call that found a record on its stack
Applies(d) ==
    \/ d.op = "undo" /\ d.us0 # <<>>
    \/ d.op = "redo" /\ d.rs0 # <<>>

\* C22: whenever undo() or redo() applies a record, the record's begin and
\* end are slots of the live piece sequence (or its end), begin not after
\* end, whatever edits, undos and redos came before.
C22_AnchorsLive ==
    \A i \in Calls :
        Applies(log[i])
        => /\ 1 <= log[i].loc[1]
           /\ log[i].loc[1] <= log[i].loc[2]
           /\ log[i].loc[2] <= Len(log[i].pre.pieces) + 1

\* C23: in every reachable state is_empty() is true exactly when
\* size() = 0: after construction from an empty text, after the whole
\* content was deleted, after clear().
C23_EmptyIffSizeZero ==
    status = "ok" => (is_empty <=> size = 0)

\* the number of pieces before and after the span call d replaces: for an
\* edit of [lo, hi) the pieces that end at or before lo and the pieces that
\* start at or after hi and end after it; for an append every piece is
\* before the span; for an apply the pieces before the record's begin and
\* from its end on
Outside(ps, lo, hi) ==
    [before |-> Cardinality({k \in 1..Len(ps) : Cum(ps, k) <= lo}),
     after  |-> Cardinality({k \in 1..Len(ps) :
                                Cum(ps, k - 1) >= hi /\ Cum(ps, k) > hi})]

FrameOf(d) ==
    LET ps == d.pre.pieces
    IN  CASE d.op = "clear"  -> [before |-> 0, after |-> 0]
          [] d.op = "append" -> [before |-> Len(ps), after |-> 0]
          [] d.op = "insert" ->
                IF d.idx = d.pre.size      \* line 135: it is an append
                THEN [before |-> Len(ps), after |-> 0]
                ELSE Outside(ps, d.idx, d.idx)
          [] d.op = "delete" -> Outside(ps, d.idx, d.idx + d.n)
          [] OTHER -> [before |-> d.loc[1] - 1,
                       after  |-> Len(ps) + 1 - d.loc[2]]

Kept(ids, f) ==
    [before |-> SubSeq(ids, 1, f.before),
     after  |-> SubSeq(ids, Len(ids) - f.after + 1, Len(ids))]

FrameKept ==
    (log' # log /\ Last(log').done)
    => LET f == FrameOf(Last(log'))
       IN  /\ f.before + f.after <= Len(pieces_')
           /\ Kept(pieces_', f) = Kept(pieces_, f)
           /\ \A k \in 1..Len(pieces_') :
                 InList(pieces_, pieces_'[k])
                 => node'[pieces_'[k]] = node[pieces_'[k]]

\* C24: every mutating operation and every apply that returns changes the
\* piece sequence only inside the replaced span: the pieces before it and
\* the pieces after it are the same pieces in the same order, and no piece
\* that stays in the sequence has its start, length or source tag changed.
C24_FrameOutsideSpan == [][FrameKept]_vars

C24_Witness ==
    \E i \in Calls : \E j \in Calls :
        /\ log[i].op \in {"insert", "delete"} /\ log[i].done
        /\ FrameOf(log[i]).before > 0
        /\ FrameOf(log[i]).after > 0
        /\ Len(log[i].removed) > 0
        /\ log[i].post.pieces # log[i].pre.pieces
        /\ log[j].op = "undo" /\ log[j].done
        /\ FrameOf(log[j]).before + FrameOf(log[j]).after > 0
        /\ log[j].post.pieces # log[j].pre.pieces

====
